---- MODULE Spec2Model ----
(***************************************************************************)
(* A model of the rpscrape raceday actor.                                  *)
(*                                                                         *)
(*   Spec       one run of the actor entry point, src/src/main.py or its   *)
(*              earlier variant src/src/main_v1.py (variable "variant")    *)
(*   SplitSpec  one run of the course-splitting script src/parse_races.py  *)
(*                                                                         *)
(* Text is modelled as a sequence of tokens.  Data that the code inspects  *)
(* character by character (race times, course names, identifiers) is a     *)
(* sequence of one-character tokens; fixed literals of the code            *)
(* ("unknown", ".json", "complete_", the command names) are one token      *)
(* each.  None of the literals can be spelled with the data characters     *)
(* used here, so token sequences are equal exactly when the strings are.   *)
(***************************************************************************)
EXTENDS Integers, Sequences, FiniteSets, TLC

VARIABLES
    variant,        \* "main" (src/src/main.py) or "v1" (src/src/main_v1.py)
    command,        \* actor input 'command'
    date_arg,       \* actor input 'date'
    pc,             \* position of the run in main()
    baseExists,     \* os.path.exists(rpscrape_base)
    scripts,        \* the <command>.py files present in rpscrape/scripts
    dataDirExists,  \* os.path.exists(rpscrape/racecards)
    files,          \* rpscrape/racecards: file name -> [mtime, content, fresh]
    result,         \* how the scraper subprocess ended, "none" before it ran
    stdout,         \* result.stdout of the scraper subprocess (read by v1 only)
    output_file,    \* the file chosen by the output locator, or NoFile
    data,           \* the loaded, normalised list of records
    idx,            \* position of the for loop over data (1-based)
    dataset,        \* the arguments of Actor.push_data, in call order
    kv,             \* key-value store: key -> value
    calls,          \* every external effect of the run, in order
    statusMessage,  \* which error_msg Actor.fail was called with, or "none"
    input,          \* parse_races: the loaded racecard structure, in traversal order
    phase,          \* parse_races: "group", "save" or "done" ("idle": not running)
    pos,            \* parse_races: the entry the nested for loops are at
    races_by_course,\* parse_races: course name -> list of full_race
    courseOrder,    \* parse_races: the keys of races_by_course in insertion order
    origin,         \* parse_races: course name -> input positions of the list's races
    todo,           \* parse_races: position of the save loop in courseOrder
    outdir          \* parse_races: output directory, file name -> [races: the list
                    \* dumped, course: the key of races_by_course it was dumped for]

actorVars == <<variant, command, date_arg, pc, baseExists, scripts, dataDirExists,
               files, result, stdout, output_file, data, idx, dataset, kv, calls,
               statusMessage>>
splitVars == <<input, phase, pos, races_by_course, courseOrder, origin, todo, outdir>>
vars == <<actorVars, splitVars>>

----------------------------------------------------------------------------
(* Bounds of the model *)

MaxRecords == 2      \* longest list artifact
MaxOldFiles == 1     \* files found in rpscrape/racecards when the run starts
MaxMtime == 2        \* modification times run from 1 to MaxMtime, which is "now"
MaxRaces == 2        \* race entries in the structure parse_races.py loads

----------------------------------------------------------------------------
(* Generic helpers *)

Range(s) == {s[i] : i \in 1..Len(s)}

SeqsUpTo(S, n) == UNION {[1..k -> S] : k \in 0..n}

\* dict[key] = value
Put(f, k, v) == [x \in DOMAIN f \cup {k} |-> IF x = k THEN v ELSE f[x]]

\* dict.get(key, default)
Get(f, k, default) == IF k \in DOMAIN f THEN f[k] ELSE default

EmptyMap == [x \in {} |-> 0]

----------------------------------------------------------------------------
(* JSON values handled by the actor *)

Str(s) == [t |-> "str", v |-> s]
Num(n) == [t |-> "num", v |-> n]

Scalar == [kind |-> "scalar"]
Dict(f) == [kind |-> "dict", fields |-> f]
List(s) == [kind |-> "list", items |-> s]
Invalid == [kind |-> "invalid"]      \* text that json.load rejects

Race(id, course, time) ==
    Dict([k \in {"race_id", "racecourse_name", "race_time"} |->
            CASE k = "race_id" -> Str(id)
              [] k = "racecourse_name" -> Str(course)
              [] OTHER -> time])

\* The records a list artifact is drawn from: a non-mapping entry, two races
\* whose times differ only by the colon, a mapping without any of the fields,
\* and a race whose race_time is a number.
Items ==
    { Scalar,
      Race(<<"7">>, <<"A">>, Str(<<"1", ":", "2">>)),
      Race(<<"7">>, <<"A">>, Str(<<"1", "2">>)),
      Dict(EmptyMap),
      Race(<<"8">>, <<"A">>, Num(12)) }

Artifacts ==
    {Invalid, Scalar, Dict(EmptyMap)} \cup {List(s) : s \in SeqsUpTo(Items, MaxRecords)}

\* What an earlier run left behind
OldArtifact == List(<<Race(<<"9">>, <<"A">>, Str(<<"3">>))>>)

FileNames == {<<"a", ".json">>, <<"b", ".json">>, <<"c", ".txt">>}
Mtimes == 1..MaxMtime
Now == MaxMtime
NoFile == <<>>

Commands == {"racecards", "racedays"}
ScriptSets == {{}, {"racecards"}, {"racecards", "racedays"}}

Timestamp == Str(<<"T">>)

----------------------------------------------------------------------------
(* The actor: src/src/main.py and src/src/main_v1.py *)

\* One entry of rpscrape/racecards.  "fresh" records whether the scraper
\* subprocess of this run wrote the file.
File(m, c, fr) == [mtime |-> m, content |-> c, fresh |-> fr]

OldDirs ==
    {d \in UNION {[N -> [mtime : Mtimes, content : {OldArtifact}, fresh : {FALSE}]] :
                    N \in SUBSET FileNames} : Cardinality(DOMAIN d) <= MaxOldFiles}

Call(op, i, key) == [op |-> op, i |-> i, key |-> key]

Init ==
    /\ variant \in {"main", "v1"}
    /\ command \in Commands
    /\ date_arg = <<"d">>
    /\ pc = "start"
    /\ baseExists \in BOOLEAN
    /\ scripts \in (IF baseExists THEN ScriptSets ELSE {{}})
    /\ dataDirExists \in BOOLEAN
    /\ files \in (IF dataDirExists THEN OldDirs ELSE {EmptyMap})
    /\ result = "none"
    /\ stdout = Invalid
    /\ output_file = NoFile
    /\ data = <<>>
    /\ idx = 0
    /\ dataset = <<>>
    /\ kv = EmptyMap
    /\ calls = <<>>
    /\ statusMessage = "none"
    /\ input = <<>>
    /\ phase = "idle"
    /\ pos = 0
    /\ races_by_course = EmptyMap
    /\ courseOrder = <<>>
    /\ origin = EmptyMap
    /\ todo = 0
    /\ outdir = EmptyMap

\* Variant: the return after Actor.fail left out
FailWithoutReturn(msg) ==
    /\ pc' = "success"
    /\ statusMessage' = msg
    /\ calls' = Append(calls, Call("fail", 0, <<>>))

\* await Actor.fail(status_message=error_msg); return
Fail(msg) ==
    /\ pc' = "failed"
    /\ statusMessage' = msg
    /\ calls' = Append(calls, Call("fail", 0, <<>>))

\* if not os.path.exists(rpscrape_base)
CheckBase ==
    /\ pc = "start"
    /\ pc' = IF baseExists THEN "check_script" ELSE "clone"
    /\ UNCHANGED <<variant, command, date_arg, result, baseExists, scripts, dataDirExists,
                   files, stdout, output_file, data, idx, dataset, kv, calls,
                   statusMessage>>

\* subprocess.run(['git', 'clone', ...], check=True): either the working copy
\* appears, with whatever scripts the repository holds, or CalledProcessError
Clone ==
    /\ pc = "clone"
    /\ \E ok \in BOOLEAN :
        IF ok
        THEN /\ calls' = Append(calls, Call("clone_ok", 0, <<>>))
             /\ baseExists' = TRUE
             /\ scripts' \in ScriptSets
             /\ pc' = "check_script"
             /\ UNCHANGED statusMessage
        ELSE /\ pc' = "failed"
             /\ statusMessage' = "clone"
             /\ calls' = calls \o <<Call("clone_failed", 0, <<>>), Call("fail", 0, <<>>)>>
             /\ UNCHANGED <<baseExists, scripts>>
    /\ UNCHANGED <<variant, command, date_arg, result, dataDirExists, files, stdout,
                   output_file, data, idx, dataset, kv>>

\* Variant: the existence check left out
ScriptAlwaysPresent(cmd) == TRUE

\* os.path.exists(script_full_path)
ScriptPresent(cmd) == cmd \in scripts

CheckScript ==
    /\ pc = "check_script"
    /\ IF ScriptPresent(command)
       THEN pc' = "run" /\ UNCHANGED <<calls, statusMessage>>
       ELSE Fail("script_not_found")
    /\ UNCHANGED <<variant, command, date_arg, result, baseExists, scripts, dataDirExists,
                   files, stdout, output_file, data, idx, dataset, kv>>

\* Variant: the return code ignored
AnyReturnCodeOk(returncode) == TRUE

\* not (result.returncode != 0)
ReturnCodeOk(returncode) == returncode = 0

\* What the scraper may leave in rpscrape/racecards: nothing, or one file
\* (new or overwriting an old one) stamped with the current time.
Written(out) ==
    {files} \cup {Put(files, n, File(Now, c, TRUE)) : n \in FileNames, c \in out}

\* The ways the subprocess call can end: TimeoutExpired, or a return code
RunOutcomes == {"timeout", "exit0", "exit1"}
ReturnCode(outcome) == IF outcome = "exit0" THEN 0 ELSE 1

\* subprocess.run(['python', script_file, date_arg], ..., timeout=...), then the
\* returncode test.  stdout is drawn only for the variant that reads it.
RunScript ==
    /\ pc = "run"
    /\ \E outcome \in RunOutcomes :
        /\ result' = outcome
        /\ IF outcome = "timeout"
           THEN /\ pc' = "failed"
                /\ statusMessage' = "timeout"
                /\ calls' = calls \o <<Call("run", 0, <<>>), Call("fail", 0, <<>>)>>
                /\ UNCHANGED <<files, dataDirExists, stdout>>
           ELSE IF ~ReturnCodeOk(ReturnCode(outcome))
           THEN /\ pc' = "failed"
                /\ statusMessage' = "script_failed"
                /\ calls' = calls \o <<Call("run", 0, <<>>), Call("fail", 0, <<>>)>>
                /\ UNCHANGED <<files, dataDirExists, stdout>>
           ELSE /\ calls' = Append(calls, Call("run", 0, <<>>))
                /\ UNCHANGED statusMessage
                /\ IF variant = "main"
                   THEN /\ pc' = "locate"
                        /\ files' \in Written(Artifacts)
                        /\ dataDirExists' = (dataDirExists \/ files' # files)
                        /\ UNCHANGED stdout
                   ELSE /\ pc' = "parse_stdout"
                        /\ stdout' \in Artifacts
                        /\ UNCHANGED <<files, dataDirExists>>
    /\ UNCHANGED <<variant, command, date_arg, baseExists, scripts, output_file,
                   data, idx, dataset, kv>>

\* f.endswith('.json')
EndsWithJson(name) == Len(name) > 0 /\ name[Len(name)] = ".json"

\* [f for f in os.listdir(rpscrape_data_path) if f.endswith('.json')], for one
\* order of os.listdir
Listings ==
    LET J == {n \in DOMAIN files : EndsWithJson(n)}
    IN  {s \in [1..Cardinality(J) -> J] : Range(s) = J}

\* os.path.getmtime(os.path.join(rpscrape_data_path, x))
getmtime(name) == files[name].mtime

\* The order list.sort puts two keys in
Before(a, b, reverse) == IF reverse THEN a > b ELSE a < b

\* One step of the stable sort: x goes behind every entry that does not sort
\* after it
InsertSorted(s, x, reverse) ==
    LET k == Cardinality({i \in 1..Len(s) : ~Before(getmtime(x), getmtime(s[i]), reverse)})
    IN  SubSeq(s, 1, k) \o <<x>> \o SubSeq(s, k + 1, Len(s))

\* list.sort(key=getmtime, reverse=...): a stable sort
RECURSIVE SortByMtime(_, _)
SortByMtime(s, reverse) ==
    IF s = <<>> THEN <<>>
    ELSE InsertSorted(SortByMtime(SubSeq(s, 1, Len(s) - 1), reverse), s[Len(s)], reverse)

\* Variant: reverse=True left out
SortedAscending(json_files) == SortByMtime(json_files, FALSE)

\* json_files.sort(key=lambda x: os.path.getmtime(...), reverse=True)
SortedByMtime(json_files) == SortByMtime(json_files, TRUE)

\* Lines 84-102 of main.py
Locate ==
    /\ pc = "locate"
    /\ IF dataDirExists
       THEN \E json_files \in Listings :
               IF json_files # <<>>
               THEN /\ output_file' = SortedByMtime(json_files)[1]
                    /\ pc' = "load"
                    /\ UNCHANGED <<calls, statusMessage>>
               ELSE /\ Fail("no_output")
                    /\ UNCHANGED output_file
       ELSE /\ Fail("no_output")
            /\ UNCHANGED output_file
    /\ UNCHANGED <<variant, command, date_arg, result, baseExists, scripts, dataDirExists,
                   files, stdout, data, idx, dataset, kv>>

\* if not isinstance(data, list): data = [data]
Normalize(d) == IF d.kind = "list" THEN d.items ELSE <<d>>

\* Variant: the loop stops one record short
LoopShort(i, n) == IF i < n THEN "stamp" ELSE "complete"

\* for item in data: the loop goes on with record i, or is over
LoopFrom(i, n) == IF i <= n THEN "stamp" ELSE "complete"

\* Lines 105-127 of main.py: json.load, then the wrapping
Load ==
    /\ pc = "load"
    /\ LET content == files[output_file].content
       IN  IF content.kind = "invalid"
           THEN /\ Fail("json_parse")
                /\ UNCHANGED <<data, idx>>
           ELSE /\ data' = Normalize(content)
                /\ idx' = 1
                /\ pc' = LoopFrom(1, Len(data'))
                /\ UNCHANGED <<calls, statusMessage>>
    /\ UNCHANGED <<variant, command, date_arg, result, baseExists, scripts, dataDirExists,
                   files, stdout, output_file, dataset, kv>>

\* item["timestamp"] = timestamp; TypeError when item is not a mapping
Stamp ==
    /\ pc = "stamp"
    /\ IF data[idx].kind = "dict"
       THEN /\ data' = [data EXCEPT ![idx] =
                          Dict(Put(data[idx].fields, "timestamp", Timestamp))]
            /\ calls' = Append(calls, Call("stamp", idx, <<>>))
            /\ pc' = "push"
            /\ UNCHANGED statusMessage
       ELSE /\ Fail("processing")
            /\ UNCHANGED data
    /\ UNCHANGED <<variant, command, date_arg, result, baseExists, scripts, dataDirExists,
                   files, stdout, output_file, idx, dataset, kv>>

\* await Actor.push_data(item)
PushData ==
    /\ pc = "push"
    /\ dataset' = Append(dataset, data[idx])
    /\ calls' = Append(calls, Call("push", idx, <<>>))
    /\ pc' = "save"
    /\ UNCHANGED <<variant, command, date_arg, result, baseExists, scripts, dataDirExists,
                   files, stdout, output_file, data, idx, kv, statusMessage>>

\* str.replace(':', '')
RemoveColons(s) == SelectSeq(s, LAMBDA c : c # ":")

\* How an f-string renders a field value.  Identifiers and course names are
\* modelled by their rendering, so this is the text itself.
Format(v) == v.v

Unknown == Str(<<"unknown">>)

\* f"{date_arg}_{course_name}_{race_time}_{race_id}.json"
Filename(date, item) ==
    LET race_id == Get(item.fields, "race_id", Unknown)
        course_name == Get(item.fields, "racecourse_name", Unknown)
        race_time == RemoveColons(Get(item.fields, "race_time", Unknown).v)
    IN  date \o <<"_">> \o Format(course_name) \o <<"_">> \o race_time
             \o <<"_">> \o Format(race_id) \o <<".json">>

\* f'complete_{command}_{date_arg}.json'
CompleteKey(cmd, date) == <<"complete_", cmd, "_">> \o date \o <<".json">>

\* Lines 142-147 of main.py: .replace raises AttributeError when race_time is
\* not a string; otherwise the record goes to the key-value store and the loop
\* moves on
SaveRecord ==
    /\ pc = "save"
    /\ IF Get(data[idx].fields, "race_time", Unknown).t = "str"
       THEN /\ kv' = Put(kv, Filename(date_arg, data[idx]), data[idx])
            /\ calls' = Append(calls, Call("set_value", idx, Filename(date_arg, data[idx])))
            /\ idx' = idx + 1
            /\ pc' = LoopFrom(idx + 1, Len(data))
            /\ UNCHANGED statusMessage
       ELSE /\ Fail("processing")
            /\ UNCHANGED <<kv, idx>>
    /\ UNCHANGED <<variant, command, date_arg, result, baseExists, scripts, dataDirExists,
                   files, stdout, output_file, data, dataset>>

\* await Actor.set_value(f'complete_{command}_{date_arg}.json', data)
SaveComplete ==
    /\ pc = "complete"
    /\ kv' = Put(kv, CompleteKey(command, date_arg), List(data))
    /\ calls' = Append(calls, Call("set_value", 0, CompleteKey(command, date_arg)))
    /\ pc' = "success"
    /\ UNCHANGED <<variant, command, date_arg, result, baseExists, scripts, dataDirExists,
                   files, stdout, output_file, data, idx, dataset, statusMessage>>

\* Lines 169-171 of main.py: the success messages
Finish ==
    /\ pc = "success"
    /\ pc' = "done"
    /\ UNCHANGED <<variant, command, date_arg, result, baseExists, scripts, dataDirExists,
                   files, stdout, output_file, data, idx, dataset, kv, calls,
                   statusMessage>>

\* main_v1.py 76-83: json.loads(result.stdout), falling back to raw text
ParseStdout ==
    /\ pc = "parse_stdout"
    /\ data' = IF stdout.kind = "invalid"
               THEN <<Dict([k \in {"raw_output"} |-> stdout])>>
               ELSE <<stdout>>
    /\ pc' = "v1_push"
    /\ UNCHANGED <<variant, command, date_arg, result, baseExists, scripts, dataDirExists,
                   files, stdout, output_file, idx, dataset, kv, calls, statusMessage>>

\* main_v1.py 86: await Actor.push_data(output_data)
V1PushData ==
    /\ pc = "v1_push"
    /\ dataset' = Append(dataset, data[1])
    /\ calls' = Append(calls, Call("push", 0, <<>>))
    /\ pc' = "v1_save"
    /\ UNCHANGED <<variant, command, date_arg, result, baseExists, scripts, dataDirExists,
                   files, stdout, output_file, data, idx, kv, statusMessage>>

\* main_v1.py 90-93: await Actor.set_value('OUTPUT', output_data)
V1SetValue ==
    /\ pc = "v1_save"
    /\ kv' = Put(kv, <<"OUTPUT">>, data[1])
    /\ calls' = Append(calls, Call("set_value", 0, <<"OUTPUT">>))
    /\ pc' = "done"
    /\ UNCHANGED <<variant, command, date_arg, result, baseExists, scripts, dataDirExists,
                   files, stdout, output_file, data, idx, dataset, statusMessage>>

Next ==
    \/ CheckBase /\ UNCHANGED splitVars
    \/ Clone /\ UNCHANGED splitVars
    \/ CheckScript /\ UNCHANGED splitVars
    \/ RunScript /\ UNCHANGED splitVars
    \/ Locate /\ UNCHANGED splitVars
    \/ Load /\ UNCHANGED splitVars
    \/ Stamp /\ UNCHANGED splitVars
    \/ PushData /\ UNCHANGED splitVars
    \/ SaveRecord /\ UNCHANGED splitVars
    \/ SaveComplete /\ UNCHANGED splitVars
    \/ Finish /\ UNCHANGED splitVars
    \/ ParseStdout /\ UNCHANGED splitVars
    \/ V1PushData /\ UNCHANGED splitVars
    \/ V1SetValue /\ UNCHANGED splitVars

Spec == Init /\ [][Next]_vars

----------------------------------------------------------------------------
(* The course-splitting script: src/parse_races.py *)

Countries == {"GB", "IRE"}
Courses == {<<"A">>, <<"A", " ", "(", "W", ")">>, <<"A", " ", "W">>}
OffTimes == {"1:00", "2:00"}

\* The values found under a time key: something that is not a mapping, a
\* mapping without "runners", a race, and a race that carries its own
\* "course" and "off_time" fields.
RaceData ==
    { Scalar,
      Dict([k \in {"race_name"} |-> "n"]),
      Dict([k \in {"runners", "race_name"} |-> "n"]),
      Dict([k \in {"runners", "course", "off_time"} |->
              CASE k = "course" -> <<"X">>
                [] k = "off_time" -> "9:99"
                [] OTHER -> "n"]) }

Entry == [country : Countries, course : Courses, off_time : OffTimes, race_data : RaceData]

\* The nested loops over data.items(), courses.items(), race_times.items()
\* visit the entries of one country together, within it those of one course
\* together, and no time twice under one course.  (A country or course
\* holding nothing is never visited, and is left out.)
IsTraversal(s) ==
    /\ \A i, j \in 1..Len(s) : i < j /\ s[i].country = s[j].country =>
          \A k \in i..j : s[k].country = s[i].country
    /\ \A i, j \in 1..Len(s) :
          i < j /\ s[i].country = s[j].country /\ s[i].course = s[j].course =>
             /\ \A k \in i..j : s[k].course = s[i].course
             /\ s[i].off_time # s[j].off_time

Inputs == {s \in SeqsUpTo(Entry, MaxRaces) : IsTraversal(s)}

SplitInit ==
    /\ input \in Inputs
    /\ phase = "group"
    /\ pos = 1
    /\ races_by_course = EmptyMap
    /\ courseOrder = <<>>
    /\ origin = EmptyMap
    /\ todo = 0
    /\ outdir = EmptyMap
    /\ variant = "main"
    /\ command = "racecards"
    /\ date_arg = <<"d">>
    /\ pc = "idle"
    /\ baseExists = TRUE
    /\ scripts = {}
    /\ dataDirExists = TRUE
    /\ files = EmptyMap
    /\ result = "none"
    /\ stdout = Invalid
    /\ output_file = NoFile
    /\ data = <<>>
    /\ idx = 0
    /\ dataset = <<>>
    /\ kv = EmptyMap
    /\ calls = <<>>
    /\ statusMessage = "none"

\* Variant: the "runners" test left out
IsMapping(race_data) == race_data.kind = "dict"

\* isinstance(race_data, dict) and "runners" in race_data
HasRunners(race_data) == race_data.kind = "dict" /\ "runners" \in DOMAIN race_data.fields

\* {"country": country, "course": course_name, "off_time": off_time, **race_data}:
\* a key that occurs twice keeps the value given last
full_race(country, course_name, off_time, race_data) ==
    [k \in {"country", "course", "off_time"} \cup DOMAIN race_data.fields |->
        IF k \in DOMAIN race_data.fields THEN race_data.fields[k]
        ELSE CASE k = "country" -> country
               [] k = "course" -> course_name
               [] OTHER -> off_time]

\* One pass of the innermost loop body, lines 24-34
Visit ==
    /\ phase = "group"
    /\ pos <= Len(input)
    /\ LET e == input[pos]
       IN  IF HasRunners(e.race_data)
           THEN /\ races_by_course' =
                      Put(races_by_course, e.course,
                          Append(Get(races_by_course, e.course, <<>>),
                                 full_race(e.country, e.course, e.off_time, e.race_data)))
                /\ origin' = Put(origin, e.course, Append(Get(origin, e.course, <<>>), pos))
                /\ courseOrder' = IF e.course \in DOMAIN races_by_course
                                  THEN courseOrder
                                  ELSE Append(courseOrder, e.course)
           ELSE UNCHANGED <<races_by_course, origin, courseOrder>>
    /\ pos' = pos + 1
    /\ UNCHANGED <<input, phase, todo, outdir>>

\* The loops are over; the save loop starts
StartSave ==
    /\ phase = "group"
    /\ pos > Len(input)
    /\ phase' = "save"
    /\ todo' = 1
    /\ UNCHANGED <<input, pos, races_by_course, courseOrder, origin, outdir>>

Alnum == {"A", "W", "X"}

\* c.isalnum() or c in (" ", "-", "_")
Kept(c) == c \in Alnum \/ c \in {" ", "-", "_"}

\* str.rstrip()
RECURSIVE rstrip(_)
rstrip(s) ==
    IF s # <<>> /\ s[Len(s)] = " " THEN rstrip(SubSeq(s, 1, Len(s) - 1)) ELSE s

\* "".join(c for c in course if c.isalnum() or c in (" ", "-", "_")).rstrip()
safe_name(course) == rstrip(SelectSeq(course, Kept))

\* One pass of the save loop, lines 37-43: open(output_file, "w") replaces a
\* file of that name
SaveCourse ==
    /\ phase = "save"
    /\ todo <= Len(courseOrder)
    /\ LET course == courseOrder[todo]
       IN  outdir' = Put(outdir, safe_name(course) \o <<".json">>,
                         [course |-> course, races |-> races_by_course[course]])
    /\ todo' = todo + 1
    /\ UNCHANGED <<input, phase, pos, races_by_course, courseOrder, origin>>

SplitFinish ==
    /\ phase = "save"
    /\ todo > Len(courseOrder)
    /\ phase' = "done"
    /\ UNCHANGED <<input, pos, races_by_course, courseOrder, origin, todo, outdir>>

SplitNext ==
    \/ Visit /\ UNCHANGED actorVars
    \/ StartSave /\ UNCHANGED actorVars
    \/ SaveCourse /\ UNCHANGED actorVars
    \/ SplitFinish /\ UNCHANGED actorVars

SplitSpec == SplitInit /\ [][SplitNext]_vars

----------------------------------------------------------------------------
(* Properties of the actor *)

IsPublish(c) == c.op \in {"stamp", "push", "set_value"}
Published == SelectSeq(calls, IsPublish)

\* The artifact the run loaded, as the subprocess or an earlier run left it
Loaded == files[output_file].content
RecordCount == IF Loaded.kind = "list" THEN Len(Loaded.items) ELSE 1
Original(i) == IF Loaded.kind = "list" THEN Loaded.items[i] ELSE Loaded

\* The k-th publishing effect of a run over n records: three per record, in
\* artifact order, then the composite key
IsExpectedCall(c, k, n) ==
    LET i == ((k - 1) \div 3) + 1
        step == (k - 1) % 3
    IN  IF i <= n
        THEN /\ c.i = i
             /\ c.op = (CASE step = 0 -> "stamp" [] step = 1 -> "push" [] OTHER -> "set_value")
             /\ step = 2 => c.key = Filename(date_arg, Original(i))
        ELSE /\ k = 3 * n + 1
             /\ c.op = "set_value"
             /\ c.key = <<"complete_", command, "_">> \o date_arg \o <<".json">>

HasLoaded == variant = "main" /\ pc \in {"stamp", "push", "save", "complete", "success", "done"}

JsonNames == {n \in DOMAIN files : n[Len(n)] = ".json"}

AfterLocate ==
    variant = "main" /\ pc \notin {"start", "clone", "check_script", "run", "locate"}

\* C2: the file the output locator of main.py selects is a .json file of
\* rpscrape/racecards whose modification time is at least that of every other
\* .json file there; when the directory is missing or holds no .json file the
\* run ends with Actor.fail and nothing is in the dataset or the key-value store.
C2_Locator ==
    /\ output_file # NoFile =>
          /\ dataDirExists
          /\ output_file \in JsonNames
          /\ \A n \in JsonNames : files[output_file].mtime >= files[n].mtime
    /\ AfterLocate /\ result = "exit0" /\ JsonNames # {} => output_file # NoFile
    /\ AfterLocate /\ (~dataDirExists \/ JsonNames = {}) =>
          /\ pc = "failed"
          /\ calls[Len(calls)].op = "fail"
          /\ output_file = NoFile
          /\ dataset = <<>>
          /\ kv = EmptyMap

C2_Witness ==
    /\ output_file # NoFile
    /\ \E n \in JsonNames : files[n].mtime < files[output_file].mtime
    /\ pc = "load"

\* C3 (as claimed): what a run of main.py publishes comes from a file that the
\* scraper subprocess of this run wrote.
C3_PublishesOwnOutput ==
    variant = "main" /\ (dataset # <<>> \/ kv # EmptyMap) => files[output_file].fresh

\* C4: in both variants, when the scraper subprocess times out or returns a
\* non-zero status, the run calls Actor.fail, and nothing is pushed to the
\* dataset or written to the key-value store.
C4_ScriptFailure ==
    result \in {"timeout", "exit1"} =>
        /\ pc = "failed"
        /\ calls[Len(calls)].op = "fail"
        /\ statusMessage = (IF result = "timeout" THEN "timeout" ELSE "script_failed")
        /\ dataset = <<>>
        /\ kv = EmptyMap
        /\ \A k \in 1..Len(calls) : calls[k].op \notin {"push", "set_value"}

C4_Witness == variant = "v1" /\ result = "exit1" /\ pc = "failed"

ClonedCount == Cardinality({k \in 1..Len(calls) : calls[k].op \in {"clone_ok", "clone_failed"}})
RunCount == Cardinality({k \in 1..Len(calls) : calls[k].op = "run"})

\* The order of the positions of main()
Rank(p) ==
    CASE p = "start" -> 0
      [] p = "clone" -> 1
      [] p = "check_script" -> 2
      [] p = "run" -> 3
      [] p \in {"locate", "parse_stdout"} -> 4
      [] p \in {"load", "v1_push"} -> 5
      [] p \in {"stamp", "push", "save", "v1_save"} -> 6
      [] p = "complete" -> 7
      [] p = "success" -> 8
      [] OTHER -> 9

\* C5: a run never goes back to an earlier stage; the clone is attempted at
\* most once and only when the working copy is absent; the scraper script is
\* invoked at most once and only with the working copy present and
\* <command>.py in its scripts directory; when the clone fails or the script
\* is missing the run calls Actor.fail and never invokes the scraper script.
C5_LinearFlow ==
    /\ [](/\ ClonedCount <= 1
          /\ RunCount <= 1
          /\ RunCount = 1 => baseExists /\ command \in scripts
          /\ pc \in {"done", "success"} => RunCount = 1
          /\ (\E k \in 1..Len(calls) : calls[k].op = "clone_failed") \/
             (Rank(pc) > 2 /\ command \notin scripts) =>
                /\ pc = "failed"
                /\ calls[Len(calls)].op = "fail"
                /\ RunCount = 0)
    /\ [][/\ Rank(pc') >= Rank(pc)
          /\ Rank(pc') = Rank(pc) => pc \in {"stamp", "push", "save"}
          /\ ClonedCount' > ClonedCount => ~baseExists /\ ClonedCount = 0
          /\ RunCount' > RunCount => baseExists /\ command \in scripts /\ RunCount = 0]_vars

C5_Witness ==
    /\ \E k \in 1..Len(calls) : calls[k].op = "clone_ok"
    /\ RunCount = 1
    /\ pc = "done"

IndividualKeys == DOMAIN kv \ {<<"complete_", command, "_">> \o date_arg \o <<".json">>}

\* C8 (as claimed): after a run of main.py that reaches the success messages
\* with N records, the key-value store holds N individual entries, each record
\* retrievable under its own derived filename, besides the composite key.
C8_OneEntryPerRecord ==
    variant = "main" /\ pc \in {"success", "done"} =>
        /\ Cardinality(IndividualKeys) = Len(data)
        /\ \A i \in 1..Len(data) : kv[Filename(date_arg, data[i])] = data[i]

FailCount == Cardinality({k \in 1..Len(calls) : calls[k].op = "fail"})

CompositeWritten == (<<"complete_", command, "_">> \o date_arg \o <<".json">>) \in DOMAIN kv

\* C9 (as claimed): a run of main.py that ends with Actor.fail has published
\* nothing, Actor.fail is the last thing it did, and it has not written the
\* composite key.
C9_NothingPartial ==
    variant = "main" /\ FailCount > 0 =>
        /\ pc = "failed"
        /\ calls[Len(calls)].op = "fail"
        /\ dataset = <<>>
        /\ kv = EmptyMap
        /\ ~CompositeWritten

\* C9 (amended): failure is terminal and the composite key is never written
\* by a failing run: once Actor.fail has been called the run makes no further
\* step, so no later push or key-value write happens and the success messages
\* are not reached; a run that fails while processing the records has not
\* written the composite key.  (The records before the failing one stay
\* pushed and stored.)
C9_FailureTerminal ==
    /\ [](variant = "main" /\ (FailCount > 0 \/ pc = "failed") =>
             /\ pc = "failed"
             /\ FailCount = 1
             /\ calls[Len(calls)].op = "fail"
             /\ statusMessage # "none"
             /\ ~CompositeWritten)
    /\ [](variant = "main" /\ statusMessage = "processing" =>
             /\ ~CompositeWritten
             /\ idx <= Len(data)
             /\ \/ data[idx].kind # "dict"
                \/ Get(data[idx].fields, "race_time", Unknown).t # "str")
    /\ [][variant = "main" /\ FailCount > 0 =>
             /\ dataset' = dataset
             /\ kv' = kv
             /\ calls' = calls
             /\ pc' = pc]_vars

C9_Witness ==
    /\ variant = "main"
    /\ statusMessage = "processing"
    /\ Len(dataset) = 2
    /\ DOMAIN kv # {}

----------------------------------------------------------------------------
(* Properties of the course-splitting script *)

IsRace(rd) == rd.kind = "dict" /\ "runners" \in DOMAIN rd.fields

\* The places of races_by_course that hold the race visited at position k
Places(k) ==
    {<<c, j>> \in UNION {{c} \X (1..Len(origin[c])) : c \in DOMAIN origin} :
        origin[c][j] = k}

CoursesWithRaces == {input[k].course : k \in {i \in 1..Len(input) : IsRace(input[i].race_data)}}

\* C6 (as claimed): the number of files written equals the number of distinct
\* course names with at least one race with runners, and each file holds the
\* races of exactly one course.
C6_OneFilePerCourse ==
    phase = "done" =>
        /\ Cardinality(DOMAIN outdir) = Cardinality(CoursesWithRaces)
        /\ \A f \in DOMAIN outdir :
              /\ outdir[f].races = races_by_course[outdir[f].course]
              /\ \A j \in 1..Len(outdir[f].races) :
                    input[origin[outdir[f].course][j]].course = outdir[f].course

\* C7: every visited entry that is a mapping with a "runners" key is in
\* races_by_course exactly once, in the list of the course it was nested
\* under, with all the fields of the race; the lists keep the traversal order;
\* the other entries are in no list.
C7_Partition ==
    /\ DOMAIN origin = DOMAIN races_by_course
    /\ Range(courseOrder) = DOMAIN races_by_course
    /\ \A c \in DOMAIN races_by_course :
          /\ Len(races_by_course[c]) = Len(origin[c])
          /\ Len(races_by_course[c]) > 0
          /\ \A i, j \in 1..Len(origin[c]) : i < j => origin[c][i] < origin[c][j]
    /\ \A k \in 1..Len(input) :
          IF k < pos /\ IsRace(input[k].race_data)
          THEN /\ Cardinality(Places(k)) = 1
               /\ \A pl \in Places(k) :
                     /\ pl[1] = input[k].course
                     /\ \A f \in DOMAIN input[k].race_data.fields :
                           races_by_course[pl[1]][pl[2]][f] = input[k].race_data.fields[f]
          ELSE Places(k) = {}

C7_Witness ==
    /\ phase = "done"
    /\ \E c \in DOMAIN races_by_course :
          /\ Len(races_by_course[c]) = 2
          /\ input[1].country # input[2].country

\* C10 (as claimed): every record of a course list has "country", "course" and
\* "off_time" equal to the keys the race was nested under, and "course" equal
\* to the course of the list, whatever the race mapping contains.
C10_KeysFromNesting ==
    \A c \in DOMAIN races_by_course : \A j \in 1..Len(races_by_course[c]) :
        LET r == races_by_course[c][j]
            e == input[origin[c][j]]
        IN  /\ r["country"] = e.country
            /\ r["course"] = e.course
            /\ r["off_time"] = e.off_time
            /\ r["course"] = c

====
